---- MODULE Spec2Model ----
\* Approval workflow engine of the expenses application: stage resolution,
\* step-chain construction, policy evaluation, approve / reject / admin
\* override (expenses/services.py), over the records of expenses/models.py.
EXTENDS Integers, Sequences, FiniteSets, TLC

\* ---------------------------------------------------------------- bounds
\* Largest number of configured ApproverStage rows of the company.
MaxStages == 2

\* ---------------------------------------------------------------- domains
Users == {"u1", "u2"}
None == "None"
UserOrNone == Users \cup {None}
\* acted_at of a step nobody has acted on (null).
NoTime == 0
\* ApproverRole choices that matter to resolution: MANAGER is dynamic, the
\* others (FINANCE stands for FINANCE/DIRECTOR/CFO) go through RoleAssignment.
RoleNames == {"MANAGER", "FINANCE"}
ExpenseStatus == {"DRAFT", "PENDING", "APPROVED", "REJECTED"}
StepStatus == {"PENDING", "APPROVED", "REJECTED", "SKIPPED"}
Modes == {"PERCENTAGE", "SPECIFIC", "PERCENTAGE_OR_SPECIFIC"}
\* Values of ApprovalStage.sequence (an ordering key, not unique).
StageSeqs == {1, 2}
\* Values of percentage_required used as inputs (validators allow 0..100).
Percentages == {0, 34, 50, 67, 100}
\* A comment is a list of text fragments; <<>> is the empty string.
Comments == {<<>>, <<"c">>}
\* The comments given to approve_step, which stores any comment as it is.
ApproveComments == {<<"c">>}

VARIABLES
    expense,    \* the Expense row with its ApprovalStep rows: [status, steps]
    policy,     \* the company's ApprovalPolicy row (exists = FALSE: no row)
    clock,      \* the value timezone.now() returns to the next operation
    last,       \* the operation that produced this state, with its result
    prev,       \* the expense as that operation found it
    resolved,   \* the assignees the last build resolved, in chain order
    inorder,    \* k: the run since build is k approvals, one per step in
                \* ascending sequence order by that step's approver; else -1
    txns,       \* the in-flight requests of the interleaved specification
    db,         \* the Expense and ApprovalStep tables of the specification
                \* with two expenses
    sub         \* the request of expense_create: its position, the amount
                \* fields of the expense and what convert_amount returned

vars == <<expense, policy, clock, last, prev, resolved, inorder, txns, db, sub>>

\* ---------------------------------------------------------------- records
NewStep(seq, approver) ==
    [sequence |-> seq, approver |-> approver, status |-> "PENDING",
     comment |-> <<>>, acted_at |-> NoTime]

NoPolicy ==
    [exists |-> FALSE, mode |-> "PERCENTAGE", percentage_required |-> 0,
     specific_approver |-> None]

\* The row ensure_policy_for_company creates: the model's field defaults.
DefaultPolicy ==
    [exists |-> TRUE, mode |-> "PERCENTAGE", percentage_required |-> 0,
     specific_approver |-> None]

AllPolicies ==
    {NoPolicy} \cup
    [exists : {TRUE}, mode : Modes, percentage_required : Percentages,
     specific_approver : UserOrNone]

\* The policies the workflow runs are checked under: no row, the default row,
\* and each mode with and without a threshold and a specific approver.
Policies ==
    {NoPolicy, DefaultPolicy} \cup
    [exists : {TRUE}, mode : {"PERCENTAGE"}, percentage_required : {50},
     specific_approver : {None}] \cup
    [exists : {TRUE}, mode : {"SPECIFIC"}, percentage_required : {0},
     specific_approver : {None, "u2"}] \cup
    [exists : {TRUE}, mode : {"PERCENTAGE_OR_SPECIFIC"},
     percentage_required : {0, 50}, specific_approver : {None, "u2"}]

\* A stage names a role, a specific user, both or neither.
Stages ==
    [sequence : StageSeqs, role_name : RoleNames \cup {None},
     specific_user : {None, "u1"}]

StageLists == UNION {[1..n -> Stages] : n \in 0..MaxStages}

\* What build reads: the company flag, the submitter's manager, the stage rows
\* and the role assignments of the company.
Companies ==
    [is_manager_first_approver : BOOLEAN, manager : UserOrNone,
     stages : StageLists,
     role_assignments : {ra \in [RoleNames -> UserOrNone] : ra["MANAGER"] \in {None, "u2"}}]

\* ------------------------------------------------------- stage resolution
\* Mutant of resolve_stage_assignee: the role is looked up before the
\* specific user.
resolve_stage_assignee_role_first(company, stage) ==
    IF stage.role_name # None
    THEN IF stage.role_name = "MANAGER" THEN company.manager
         ELSE company.role_assignments[stage.role_name]
    ELSE stage.specific_user

resolve_stage_assignee(company, stage) ==
    IF stage.specific_user # None THEN stage.specific_user
    ELSE IF stage.role_name # None
         THEN IF stage.role_name = "MANAGER" THEN company.manager
              ELSE company.role_assignments[stage.role_name]
         ELSE None

\* order_by("sequence"): any order of the rows that is ascending in sequence
\* (the order among equal keys is the database's choice).
Orderings(stages) ==
    {p \in [1..Len(stages) -> 1..Len(stages)] :
        /\ \A i, j \in 1..Len(stages) : i # j => p[i] # p[j]
        /\ \A i, j \in 1..Len(stages) :
              i < j => stages[p[i]].sequence <= stages[p[j]].sequence}

\* ------------------------------------------------------------ chain build
\* Mutant of StageLoop: a stage without assignee still consumes a number.
RECURSIVE StageLoopGap(_, _, _, _, _)
StageLoopGap(company, ord, k, seq, acc) ==
    IF k > Len(ord) THEN acc
    ELSE LET assignee == resolve_stage_assignee(company, company.stages[ord[k]])
         IN IF assignee # None
            THEN StageLoopGap(company, ord, k + 1, seq + 1,
                              Append(acc, NewStep(seq, assignee)))
            ELSE StageLoopGap(company, ord, k + 1, seq + 1, acc)

RECURSIVE StageLoop(_, _, _, _, _)
StageLoop(company, ord, k, seq, acc) ==
    IF k > Len(ord) THEN acc
    ELSE LET assignee == resolve_stage_assignee(company, company.stages[ord[k]])
         IN IF assignee # None
            THEN StageLoop(company, ord, k + 1, seq + 1,
                           Append(acc, NewStep(seq, assignee)))
            ELSE StageLoop(company, ord, k + 1, seq, acc)

ManagerFirst(company) ==
    company.is_manager_first_approver /\ company.manager # None

\* Mutant of SubmitStatus: the auto-approval of an empty chain is missing.
SubmitStatusAlwaysPending(steps) == "PENDING"

SubmitStatus(steps) ==
    IF Len(steps) = 0 THEN "APPROVED" ELSE "PENDING"

build_approval_steps_for_expense(e, company, ord) ==
    LET first == IF ManagerFirst(company)
                 THEN <<NewStep(1, company.manager)>> ELSE <<>>
        seq0 == IF ManagerFirst(company) THEN 2 ELSE 1
        steps == e.steps \o StageLoop(company, ord, 1, seq0, first)
    IN [status |-> SubmitStatus(steps), steps |-> steps]

\* The assignees that resolved to a user, in chain order.
RECURSIVE ResolvedStages(_, _, _)
ResolvedStages(company, ord, k) ==
    IF k > Len(ord) THEN <<>>
    ELSE LET a == resolve_stage_assignee(company, company.stages[ord[k]])
         IN (IF a # None THEN <<a>> ELSE <<>>)
            \o ResolvedStages(company, ord, k + 1)

ResolvedAssignees(company, ord) ==
    (IF ManagerFirst(company) THEN <<company.manager>> ELSE <<>>)
    \o ResolvedStages(company, ord, 1)

\* -------------------------------------------------------- policy evaluator
ApprovedCount(steps) ==
    Cardinality({i \in 1..Len(steps) : steps[i].status = "APPROVED"})

AnyPending(steps) ==
    \E i \in 1..Len(steps) : steps[i].status = "PENDING"

\* (approved * 100 / total) >= required for total > 0, where / is Python's
\* true division: the quotient is compared as a rational, without rounding.
\* Mutant of PercentageReached: the percentage is rounded up.
PercentageReachedCeil(approved, total, required) ==
    (approved * 100 + total - 1) \div total >= required

PercentageReached(approved, total, required) ==
    approved * 100 >= required * total

\* any(s.approver_id == policy.specific_approver_id and s.status == APPROVED)
\* Mutant of SpecificApproved: the step's status is not looked at.
SpecificApprovedAnyStatus(pol, steps) ==
    \E i \in 1..Len(steps) : steps[i].approver = pol.specific_approver

SpecificApproved(pol, steps) ==
    \E i \in 1..Len(steps) :
        steps[i].approver = pol.specific_approver /\ steps[i].status = "APPROVED"

\* Mutant of finalize_approved: the PENDING steps are left open.
finalize_approved_leaving_steps(e, now) ==
    [status |-> "APPROVED", steps |-> e.steps]

\* Mutant of finalize_approved: a step skipped before is stamped again.
finalize_approved_restamp(e, now) ==
    [status |-> "APPROVED",
     steps |-> [i \in 1..Len(e.steps) |->
                  IF e.steps[i].status \in {"PENDING", "SKIPPED"}
                  THEN [e.steps[i] EXCEPT !.status = "SKIPPED", !.acted_at = now]
                  ELSE e.steps[i]]]

\* Mutant of finalize_approved: the skipped steps get no acted_at.
finalize_approved_unstamped(e, now) ==
    [status |-> "APPROVED",
     steps |-> [i \in 1..Len(e.steps) |->
                  IF e.steps[i].status = "PENDING"
                  THEN [e.steps[i] EXCEPT !.status = "SKIPPED"]
                  ELSE e.steps[i]]]

finalize_approved(e, now) ==
    [status |-> "APPROVED",
     steps |-> [i \in 1..Len(e.steps) |->
                  IF e.steps[i].status = "PENDING"
                  THEN [e.steps[i] EXCEPT !.status = "SKIPPED", !.acted_at = now]
                  ELSE e.steps[i]]]

SpecificMode(pol, steps) ==
    /\ pol.mode = "SPECIFIC" /\ pol.specific_approver # None
    /\ SpecificApproved(pol, steps)

\* Mutant of PercentageMode: the percentage_required > 0 test is missing.
PercentageModeNoZeroTest(pol, steps) ==
    /\ pol.mode = "PERCENTAGE"
    /\ Len(steps) > 0
    /\ PercentageReached(ApprovedCount(steps), Len(steps), pol.percentage_required)

PercentageMode(pol, steps) ==
    /\ pol.mode = "PERCENTAGE" /\ pol.percentage_required > 0
    /\ Len(steps) > 0
    /\ PercentageReached(ApprovedCount(steps), Len(steps), pol.percentage_required)

\* Mutant of CombinedMode: both conditions are required.
CombinedModeAnd(pol, steps) ==
    /\ pol.mode = "PERCENTAGE_OR_SPECIFIC"
    /\ pol.specific_approver # None /\ SpecificApproved(pol, steps)
    /\ Len(steps) > 0 /\ pol.percentage_required > 0
    /\ PercentageReached(ApprovedCount(steps), Len(steps), pol.percentage_required)

CombinedMode(pol, steps) ==
    /\ pol.mode = "PERCENTAGE_OR_SPECIFIC"
    /\ LET specific_ok ==
               pol.specific_approver # None /\ SpecificApproved(pol, steps)
           percentage_ok ==
               /\ Len(steps) > 0 /\ pol.percentage_required > 0
               /\ PercentageReached(ApprovedCount(steps), Len(steps),
                                    pol.percentage_required)
       IN specific_ok \/ percentage_ok

\* Mutant of evaluate_policy_and_maybe_finalize: an expense without steps is
\* approved instead of left alone.
evaluate_policy_approving_empty(pol, e, now) ==
    IF ~pol.exists THEN [e |-> e, finalized |-> FALSE]
    ELSE IF Len(e.steps) = 0
         THEN [e |-> finalize_approved(e, now), finalized |-> TRUE]
    ELSE IF SpecificMode(pol, e.steps) \/ PercentageMode(pol, e.steps)
            \/ CombinedMode(pol, e.steps)
         THEN [e |-> finalize_approved(e, now), finalized |-> TRUE]
    ELSE [e |-> e, finalized |-> FALSE]

\* Returns the expense as the evaluator leaves it, and whether it finalized.
evaluate_policy_and_maybe_finalize(pol, e, now) ==
    IF ~pol.exists THEN [e |-> e, finalized |-> FALSE]
    ELSE IF Len(e.steps) = 0 THEN [e |-> e, finalized |-> FALSE]
    ELSE IF SpecificMode(pol, e.steps)
         THEN [e |-> finalize_approved(e, now), finalized |-> TRUE]
    ELSE IF PercentageMode(pol, e.steps)
         THEN [e |-> finalize_approved(e, now), finalized |-> TRUE]
    ELSE IF CombinedMode(pol, e.steps)
         THEN [e |-> finalize_approved(e, now), finalized |-> TRUE]
    ELSE [e |-> e, finalized |-> FALSE]

\* ---------------------------------------------------- workflow controller
\* steps.filter(approver=user, status=PENDING).order_by("sequence").first():
\* the index of that step, 0 when there is none.
\* Mutant of FirstPendingStep: the user's latest PENDING step is taken.
LastPendingStep(steps, user) ==
    LET cand == {i \in 1..Len(steps) :
                    steps[i].approver = user /\ steps[i].status = "PENDING"}
    IN IF cand = {} THEN 0
       ELSE CHOOSE i \in cand : \A j \in cand : j <= i

\* Mutant of FirstPendingStep: the user's step counts only when no step of a
\* lower sequence is PENDING.
FirstPendingStepInTurn(steps, user) ==
    LET cand == {i \in 1..Len(steps) :
                    /\ steps[i].approver = user /\ steps[i].status = "PENDING"
                    /\ \A j \in 1..Len(steps) :
                          steps[j].sequence < steps[i].sequence
                          => steps[j].status # "PENDING"}
    IN IF cand = {} THEN 0
       ELSE CHOOSE i \in cand : \A j \in cand : i <= j

\* Mutant of FirstPendingStep: the filter on the approver is missing.
FirstPendingStepAnyUser(steps, user) ==
    LET cand == {i \in 1..Len(steps) : steps[i].status = "PENDING"}
    IN IF cand = {} THEN 0
       ELSE CHOOSE i \in cand : \A j \in cand : i <= j

\* Mutant of FirstPendingStep: the filter on the status is missing.
FirstStepOfUser(steps, user) ==
    LET cand == {i \in 1..Len(steps) : steps[i].approver = user}
    IN IF cand = {} THEN 0
       ELSE CHOOSE i \in cand : \A j \in cand : i <= j

FirstPendingStep(steps, user) ==
    LET cand == {i \in 1..Len(steps) :
                    steps[i].approver = user /\ steps[i].status = "PENDING"}
    IN IF cand = {} THEN 0
       ELSE CHOOSE i \in cand :
                \A j \in cand :
                    \/ steps[i].sequence < steps[j].sequence
                    \/ (steps[i].sequence = steps[j].sequence /\ i <= j)

Failed(e) ==
    [ok |-> FALSE, e |-> e, evaluated |-> FALSE, finalized |-> FALSE, step |-> 0]

\* Mutant of OverrideFragment: the tag is appended without a comment too.
OverrideFragmentAlways(comment) == <<"[Admin override]">> \o comment

\* "\n[Admin override] <comment>" when a comment is given, else nothing.
OverrideFragment(comment) ==
    IF comment # <<>> THEN <<"[Admin override]">> \o comment ELSE <<>>

\* Mutant of SiblingStatus: the remaining steps are closed as skipped.
SiblingStatusSkipped(status) == "SKIPPED"

\* The status reject_expense closes the remaining PENDING steps with, given
\* the expense status it has just set.
SiblingStatus(status) ==
    IF status = "APPROVED" THEN "SKIPPED" ELSE "REJECTED"

\* Mutant of approve_step: the completion of the chain (lines 187-190) is
\* missing.
approve_step_never_completing(pol, e, user, comment, now) ==
    IF e.status # "PENDING" THEN Failed(e)
    ELSE LET i == FirstPendingStep(e.steps, user) IN
         IF i = 0 THEN Failed(e)
         ELSE LET e1 == [e EXCEPT !.steps[i] =
                            [@ EXCEPT !.status = "APPROVED", !.comment = comment,
                                      !.acted_at = now]]
                  r == evaluate_policy_and_maybe_finalize(pol, e1, now)
              IN [ok |-> TRUE, e |-> r.e, evaluated |-> TRUE,
                  finalized |-> r.finalized, step |-> i]

\* Mutant of approve_step: the expense is approved without the test that no
\* step is PENDING.
approve_step_without_pending_test(pol, e, user, comment, now) ==
    IF e.status # "PENDING" THEN Failed(e)
    ELSE LET i == FirstPendingStep(e.steps, user) IN
         IF i = 0 THEN Failed(e)
         ELSE LET e1 == [e EXCEPT !.steps[i] =
                            [@ EXCEPT !.status = "APPROVED", !.comment = comment,
                                      !.acted_at = now]]
                  r == evaluate_policy_and_maybe_finalize(pol, e1, now)
              IN [ok |-> TRUE, e |-> [r.e EXCEPT !.status = "APPROVED"],
                  evaluated |-> TRUE, finalized |-> r.finalized, step |-> i]

approve_step(pol, e, user, comment, now) ==
    IF e.status # "PENDING" THEN Failed(e)
    ELSE LET i == FirstPendingStep(e.steps, user) IN
         IF i = 0 THEN Failed(e)
         ELSE LET e1 == [e EXCEPT !.steps[i] =
                            [@ EXCEPT !.status = "APPROVED", !.comment = comment,
                                      !.acted_at = now]]
                  r == evaluate_policy_and_maybe_finalize(pol, e1, now)
              IN IF r.e.status = "APPROVED"
                 THEN [ok |-> TRUE, e |-> r.e, evaluated |-> TRUE,
                       finalized |-> r.finalized, step |-> i]
                 ELSE [ok |-> TRUE,
                       e |-> IF ~AnyPending(r.e.steps)
                             THEN [r.e EXCEPT !.status = "APPROVED"] ELSE r.e,
                       evaluated |-> TRUE, finalized |-> r.finalized, step |-> i]

\* Mutant of reject_expense: the remaining steps are closed without acted_at.
reject_expense_unstamped_siblings(e, user, comment, now) ==
    LET i == FirstPendingStep(e.steps, user) IN
    IF i = 0 THEN Failed(e)
    ELSE LET e1 == [e EXCEPT !.steps[i] =
                       [@ EXCEPT !.status = "REJECTED", !.comment = comment,
                                 !.acted_at = now]]
         IN [ok |-> TRUE,
             e |-> [status |-> "REJECTED",
                    steps |-> [j \in 1..Len(e1.steps) |->
                         IF e1.steps[j].status = "PENDING"
                         THEN [e1.steps[j] EXCEPT
                                  !.status = "REJECTED",
                                  !.comment = @ \o OverrideFragment(comment)]
                         ELSE e1.steps[j]]],
             evaluated |-> FALSE, finalized |-> FALSE, step |-> i]

reject_expense(e, user, comment, now) ==
    LET i == FirstPendingStep(e.steps, user) IN
    IF i = 0 THEN Failed(e)
    ELSE LET e1 == [e EXCEPT !.steps[i] =
                       [@ EXCEPT !.status = "REJECTED", !.comment = comment,
                                 !.acted_at = now]]
             e2 == [e1 EXCEPT !.status = "REJECTED"]
             closed == SiblingStatus(e2.status)
         IN [ok |-> TRUE,
             e |-> [e2 EXCEPT !.steps =
                      [j \in 1..Len(e2.steps) |->
                         IF e2.steps[j].status = "PENDING"
                         THEN [e2.steps[j] EXCEPT
                                  !.status = closed,
                                  !.comment = @ \o OverrideFragment(comment),
                                  !.acted_at = now]
                         ELSE e2.steps[j]]],
             evaluated |-> FALSE, finalized |-> FALSE, step |-> i]

\* Mutant of admin_override_expense: every step is closed, not the PENDING
\* ones only.
admin_override_closing_all(e, status, comment, now) ==
    IF status \notin {"APPROVED", "REJECTED"} THEN Failed(e)
    ELSE [ok |-> TRUE,
          e |-> [status |-> status,
                 steps |-> [j \in 1..Len(e.steps) |->
                    [e.steps[j] EXCEPT
                        !.status = IF status = "APPROVED"
                                   THEN "SKIPPED" ELSE "REJECTED",
                        !.comment = @ \o OverrideFragment(comment),
                        !.acted_at = now]]],
          evaluated |-> FALSE, finalized |-> FALSE, step |-> 0]

\* Mutant of admin_override_expense: the PENDING steps are left open.
admin_override_leaving_steps(e, status, comment, now) ==
    IF status \notin {"APPROVED", "REJECTED"} THEN Failed(e)
    ELSE [ok |-> TRUE, e |-> [e EXCEPT !.status = status],
          evaluated |-> FALSE, finalized |-> FALSE, step |-> 0]

\* Mutant of admin_override_expense: the test of the target status is missing.
admin_override_unchecked(e, status, comment, now) ==
    [ok |-> TRUE,
     e |-> [status |-> status,
            steps |-> [j \in 1..Len(e.steps) |->
               IF e.steps[j].status = "PENDING"
               THEN [e.steps[j] EXCEPT
                        !.status = IF status = "APPROVED"
                                   THEN "SKIPPED" ELSE "REJECTED",
                        !.comment = @ \o OverrideFragment(comment),
                        !.acted_at = now]
               ELSE e.steps[j]]],
     evaluated |-> FALSE, finalized |-> FALSE, step |-> 0]

admin_override_expense(e, status, comment, now) ==
    IF status \notin {"APPROVED", "REJECTED"} THEN Failed(e)
    ELSE [ok |-> TRUE,
          e |-> [status |-> status,
                 steps |-> [j \in 1..Len(e.steps) |->
                    IF e.steps[j].status = "PENDING"
                    THEN [e.steps[j] EXCEPT
                             !.status = IF status = "APPROVED"
                                        THEN "SKIPPED" ELSE "REJECTED",
                             !.comment = @ \o OverrideFragment(comment),
                             !.acted_at = now]
                    ELSE e.steps[j]]],
          evaluated |-> FALSE, finalized |-> FALSE, step |-> 0]

\* ------------------------------------------------------------------ state
Procs == {1, 2}

\* A request that has not started. While it runs: kind, user, comment are the
\* call's arguments; status is the status field of its in-memory Expense;
\* step the index of the step it found; now its timezone.now(); snap the rows
\* its last list query returned and todo those of them it has still to
\* save; dirty, rows, wstatus its uncommitted writes (the rows it has locked).
IdleTxn ==
    [pc |-> "idle", kind |-> "none", user |-> None, comment |-> <<>>,
     status |-> "DRAFT", step |-> 0, now |-> NoTime, snap |-> <<>>,
     todo |-> {}, dirty |-> {}, rows |-> <<>>, wstatus |-> None, ok |-> FALSE]

NoOp ==
    [op |-> "none", user |-> None, status |-> None, comment |-> <<>>,
     ok |-> FALSE, evaluated |-> FALSE, finalized |-> FALSE, step |-> 0,
     dropped |-> 0, repeat |-> FALSE]

\* The record of a finished operation: the acting user of an approve or a
\* reject, the target status of an override and the comment of one that went
\* through, its result, whether it consulted the policy evaluator,
\* whether that finalized, and the step it acted on.
Done(op, user, status, comment, r) ==
    [op |-> op, user |-> user, status |-> status, comment |-> comment,
     ok |-> r.ok, evaluated |-> r.evaluated, finalized |-> r.finalized,
     step |-> r.step, dropped |-> 0, repeat |-> FALSE]

\* Time is observed through acted_at alone: the clock moves on when an
\* operation has stamped a step.
Tick(e, r) ==
    IF r.e.steps # e.steps THEN clock + 1 ELSE clock

\* expense_create has saved the expense as DRAFT; no step exists yet.
DraftExpense == [status |-> "DRAFT", steps |-> <<>>]

\* What build makes of the DRAFT expense, per company configuration and stage
\* order, with the assignees that resolved and the number of stages dropped.
BuildOutcomes ==
    UNION {{[expense |-> build_approval_steps_for_expense(DraftExpense, company, ord),
             resolved |-> ResolvedAssignees(company, ord),
             dropped |-> Len(ord) - Len(ResolvedStages(company, ord, 1))] :
              ord \in Orderings(company.stages)} : company \in Companies}

\* The tables with two expenses saved as DRAFT and no step row. target is
\* the expense the last operation was called on.
Ids == {1, 2}

NoDb == [status |-> [id \in Ids |-> "DRAFT"], rows |-> <<>>, target |-> 0]

\* What convert_amount returns for "no result" (None), and the
\* amount_converted of an expense not saved yet.
NoAmount == -1

\* No submission is in progress. Amounts are in hundredths. config is what
\* build read of the company: <<company, order of the stage rows>>.
NoSub ==
    [pc |-> "none", amount |-> 0, converted |-> NoAmount,
     amount_converted |-> NoAmount, config |-> <<>>]

Init ==
    /\ expense = DraftExpense
    /\ policy \in Policies
    /\ clock = 1
    /\ last = NoOp
    /\ prev = expense
    /\ resolved = <<>>
    /\ inorder = 0
    /\ txns = [p \in Procs |-> IdleTxn]
    /\ db = NoDb
    /\ sub = NoSub

\* ---------------------------------------------------------------- actions
\* The call approve_step(expense, user) continues a run of approvals made one
\* per step in ascending sequence order, each by that step's approver.
NextInOrder(user) ==
    /\ inorder >= 0 /\ inorder < Len(expense.steps)
    /\ user = expense.steps[inorder + 1].approver

\* expense_create: build the chain of the DRAFT expense just saved, for any
\* company configuration and any order the stage query may return.
Build ==
    /\ expense = DraftExpense /\ last.op = "none"
    /\ \E out \in BuildOutcomes :
          /\ expense' = out.expense
          /\ resolved' = out.resolved
          /\ last' = [NoOp EXCEPT !.op = "build", !.ok = TRUE,
                                  !.dropped = out.dropped]
    /\ prev' = expense
    /\ inorder' = 0
    /\ UNCHANGED <<policy, clock, txns, db, sub>>

\* The call approve_step(expense, user) comes right after a successful
\* approve_step of the same user on the expense.
Repeated(user) ==
    last.op = "approve" /\ last.ok /\ last.user = user

\* The three operations are callable on any expense row, the DRAFT one that
\* was never submitted included.
ApproveStep ==
    /\ \E user \in Users, comment \in ApproveComments :
          LET r == approve_step(policy, expense, user, comment, clock)
          IN /\ expense' = r.e
             /\ last' = [Done("approve", user, None, <<>>, r) EXCEPT
                            !.repeat = Repeated(user)]
             /\ clock' = Tick(expense, r)
             /\ inorder' = IF NextInOrder(user) THEN inorder + 1 ELSE -1
    /\ prev' = expense
    /\ UNCHANGED <<policy, resolved, txns, db, sub>>

RejectStep ==
    /\ \E user \in Users, comment \in Comments :
          LET r == reject_expense(expense, user, comment, clock)
          IN /\ expense' = r.e
             /\ last' = Done("reject", user, None, <<>>, r)
             /\ clock' = Tick(expense, r)
    /\ inorder' = -1
    /\ prev' = expense
    /\ UNCHANGED <<policy, resolved, txns, db, sub>>

AdminOverride ==
    /\ \E status \in ExpenseStatus, comment \in Comments :
          LET r == admin_override_expense(expense, status, comment, clock)
          IN /\ expense' = r.e
             /\ last' = Done("override", None, status, IF r.ok THEN comment ELSE <<>>, r)
             /\ clock' = Tick(expense, r)
    /\ inorder' = -1
    /\ prev' = expense
    /\ UNCHANGED <<policy, resolved, txns, db, sub>>

Next == Build \/ ApproveStep \/ RejectStep \/ AdminOverride

Spec == Init /\ [][Next]_vars

\* The runs of the normal flow: no admin override.
NextNormal == Build \/ ApproveStep \/ RejectStep

SpecNormal == Init /\ [][NextNormal]_vars

\* The approver user, who holds a PENDING step, calls approve_step or
\* reject_expense and the call goes through.
ActBy(user) ==
    /\ FirstPendingStep(expense.steps, user) # 0
    /\ (ApproveStep \/ RejectStep)
    /\ last'.user = user /\ last'.ok

\* The normal flow in which every approver who holds a PENDING step
\* eventually acts on the expense.
SpecProgress ==
    Init /\ [][NextNormal]_vars /\ \A user \in Users : WF_vars(ActBy(user))

\* ------------------------------------------- the evaluator on any step set
\* A step set of n steps with any approvers and statuses; a resolved step
\* carries an earlier acted_at.
StepSets(n) ==
    {[i \in 1..n |->
         [sequence |-> i, approver |-> a[i], status |-> st[i], comment |-> <<>>,
          acted_at |-> IF st[i] = "PENDING" THEN NoTime ELSE 1]] :
       a \in [1..n -> Users], st \in [1..n -> StepStatus]}

InitEval ==
    /\ expense \in [status : {"PENDING", "APPROVED"},
                    steps : UNION {StepSets(n) : n \in 0..(MaxStages + 1)}]
    /\ policy \in AllPolicies
    /\ clock = 2
    /\ last = NoOp
    /\ prev = expense
    /\ resolved = <<>>
    /\ inorder = 0
    /\ txns = [p \in Procs |-> IdleTxn]
    /\ db = NoDb
    /\ sub = NoSub

EvaluatePolicy ==
    /\ last.op = "none"
    /\ LET r == evaluate_policy_and_maybe_finalize(policy, expense, clock)
       IN /\ expense' = r.e
          /\ last' = [NoOp EXCEPT !.op = "evaluate", !.ok = TRUE,
                                  !.evaluated = TRUE, !.finalized = r.finalized]
          /\ clock' = Tick(expense, r)
    /\ prev' = expense
    /\ UNCHANGED <<policy, resolved, inorder, txns, db, sub>>

\* A second call of the evaluator, right after the first.
ReEvaluatePolicy ==
    /\ last.op = "evaluate"
    /\ LET r == evaluate_policy_and_maybe_finalize(policy, expense, clock)
       IN /\ expense' = r.e
          /\ last' = [last EXCEPT !.op = "reevaluate", !.finalized = r.finalized]
          /\ clock' = Tick(expense, r)
    /\ prev' = expense
    /\ UNCHANGED <<policy, resolved, inorder, txns, db, sub>>

NextEval == EvaluatePolicy \/ ReEvaluatePolicy

SpecEval == InitEval /\ [][NextEval]_vars

\* ------------------------------------------- interleaved requests (no locks)
\* approve_step and reject_expense run under transaction.atomic and take no
\* row lock (no select_for_update): each statement reads what is committed
\* plus the transaction's own writes, a write waits for another transaction's
\* uncommitted write of the same row, and all writes show at commit.

\* The step rows as transaction p reads them now.
ViewSteps(p) ==
    [j \in 1..Len(expense.steps) |->
        IF j \in txns[p].dirty THEN txns[p].rows[j] ELSE expense.steps[j]]

PendingIn(steps) == {j \in 1..Len(steps) : steps[j].status = "PENDING"}

\* No other transaction holds an uncommitted write of step row i.
RowFree(p, i) == \A q \in Procs \ {p} : i \notin txns[q].dirty

\* No other transaction holds an uncommitted write of the expense row.
ExpenseRowFree(p) == \A q \in Procs \ {p} : txns[q].wstatus = None

WriteRow(t, i, row) ==
    [t EXCEPT !.dirty = @ \cup {i},
              !.rows = [j \in t.dirty \cup {i} |-> IF j = i THEN row ELSE t.rows[j]]]

Finished(t, pc, ok) ==
    [IdleTxn EXCEPT !.pc = pc, !.kind = t.kind, !.user = t.user,
                    !.comment = t.comment, !.step = t.step, !.ok = ok]

Min(S) == CHOOSE i \in S : \A j \in S : i <= j

\* The view has loaded the expense and calls the service function.
Begin(p) ==
    /\ txns[p].pc = "idle" /\ last.op = "build"
    /\ \E kind \in {"approve", "reject"}, user \in Users :
          txns' = [txns EXCEPT ![p] =
                      [IdleTxn EXCEPT !.pc = "find", !.kind = kind, !.user = user,
                                      !.comment = <<"c">>, !.status = expense.status]]
    /\ UNCHANGED <<expense, policy, clock, last, prev, resolved, inorder, db, sub>>

\* approve_step lines 169-174, reject_expense lines 196-198.
Find(p) ==
    LET t == txns[p]
        i == FirstPendingStep(ViewSteps(p), t.user)
    IN /\ t.pc = "find"
       /\ txns' = [txns EXCEPT ![p] =
                      IF (t.kind = "approve" /\ t.status # "PENDING") \/ i = 0
                      THEN Finished(t, "done", FALSE)
                      ELSE [t EXCEPT !.pc = "mark", !.step = i]]
       /\ UNCHANGED <<expense, policy, clock, last, prev, resolved, inorder, db, sub>>

\* approve_step lines 176-179, reject_expense lines 200-203.
Mark(p) ==
    LET t == txns[p]
        row == [ViewSteps(p)[t.step] EXCEPT
                   !.status = IF t.kind = "approve" THEN "APPROVED" ELSE "REJECTED",
                   !.comment = t.comment, !.acted_at = clock]
    IN /\ t.pc = "mark" /\ RowFree(p, t.step)
       /\ txns' = [txns EXCEPT ![p] =
                      [WriteRow(t, t.step, row) EXCEPT
                          !.now = clock,
                          !.pc = IF t.kind = "approve" THEN "eval_read"
                                 ELSE "set_status"]]
       /\ clock' = clock + 1
       /\ UNCHANGED <<expense, policy, last, prev, resolved, inorder, db, sub>>

\* evaluate_policy_and_maybe_finalize lines 125-135 and 148-164: the read of
\* the steps and the decision.
EvalRead(p) ==
    LET t == txns[p]
        seen == ViewSteps(p)
        r == evaluate_policy_and_maybe_finalize(
                 policy, [status |-> t.status, steps |-> seen], t.now)
    IN /\ t.pc = "eval_read"
       /\ txns' = [txns EXCEPT ![p] =
                      IF r.finalized
                      THEN [t EXCEPT !.pc = "save", !.snap = seen,
                                     !.todo = PendingIn(seen), !.status = "APPROVED"]
                      ELSE [t EXCEPT !.pc = "pending_read"]]
       /\ UNCHANGED <<expense, policy, clock, last, prev, resolved, inorder, db, sub>>

\* approve_step lines 187-188.
PendingRead(p) ==
    LET t == txns[p]
    IN /\ t.pc = "pending_read"
       /\ txns' = [txns EXCEPT ![p] =
                      IF ~AnyPending(ViewSteps(p))
                      THEN [t EXCEPT !.pc = "set_status", !.status = "APPROVED"]
                      ELSE [t EXCEPT !.pc = "commit"]]
       /\ UNCHANGED <<expense, policy, clock, last, prev, resolved, inorder, db, sub>>

\* reject_expense line 211: the query of the remaining PENDING steps.
CloseRead(p) ==
    LET t == txns[p]
        seen == ViewSteps(p)
    IN /\ t.pc = "close_read"
       /\ txns' = [txns EXCEPT ![p] =
                      [t EXCEPT !.pc = "save", !.snap = seen,
                                !.todo = PendingIn(seen)]]
       /\ UNCHANGED <<expense, policy, clock, last, prev, resolved, inorder, db, sub>>

\* One s.save() of a loop: finalize_approved lines 140-144 (status and
\* acted_at), reject_expense lines 211-215 (status, comment and acted_at).
Save(p) ==
    LET t == txns[p]
        i == Min(t.todo)
        cur == ViewSteps(p)[i]
        row == IF t.kind = "approve"
               THEN [cur EXCEPT !.status = "SKIPPED", !.acted_at = t.now]
               ELSE [cur EXCEPT !.status = SiblingStatus(t.status),
                                !.comment = t.snap[i].comment
                                            \o OverrideFragment(t.comment),
                                !.acted_at = t.now]
    IN /\ t.pc = "save" /\ t.todo # {} /\ RowFree(p, i)
       /\ txns' = [txns EXCEPT ![p] = [WriteRow(t, i, row) EXCEPT !.todo = @ \ {i}]]
       /\ UNCHANGED <<expense, policy, clock, last, prev, resolved, inorder, db, sub>>

\* The loop is over: finalize_approved goes on to save the expense status,
\* reject_expense returns.
SaveDone(p) ==
    LET t == txns[p]
    IN /\ t.pc = "save" /\ t.todo = {}
       /\ txns' = [txns EXCEPT ![p] =
                      [t EXCEPT !.pc = IF t.kind = "approve" THEN "set_status"
                                       ELSE "commit"]]
       /\ UNCHANGED <<expense, policy, clock, last, prev, resolved, inorder, db, sub>>

\* expense.save(update_fields=["status"]): lines 145-146 and 189-190 of an
\* approve, lines 206-207 of a reject.
SetStatus(p) ==
    LET t == txns[p]
    IN /\ t.pc = "set_status" /\ ExpenseRowFree(p)
       /\ txns' = [txns EXCEPT ![p] =
                      IF t.kind = "approve"
                      THEN [t EXCEPT !.pc = "commit", !.wstatus = "APPROVED"]
                      ELSE [t EXCEPT !.pc = "close_read", !.status = "REJECTED",
                                     !.wstatus = "REJECTED"]]
       /\ UNCHANGED <<expense, policy, clock, last, prev, resolved, inorder, db, sub>>

\* The function returns True and transaction.atomic commits.
Commit(p) ==
    LET t == txns[p]
    IN /\ t.pc = "commit"
       /\ expense' = [status |-> IF t.wstatus # None THEN t.wstatus
                                 ELSE expense.status,
                      steps |-> ViewSteps(p)]
       /\ txns' = [txns EXCEPT ![p] = Finished(t, "done", TRUE)]
       /\ UNCHANGED <<policy, clock, last, prev, resolved, inorder, db, sub>>

\* A write that waits for another transaction's row may instead fail with a
\* database error (deadlock victim, lock timeout): the transaction rolls back
\* and the request ends with an exception.
Blocked(p) ==
    LET t == txns[p]
    IN \/ t.pc = "mark" /\ ~RowFree(p, t.step)
       \/ t.pc = "save" /\ t.todo # {} /\ ~RowFree(p, Min(t.todo))
       \/ t.pc = "set_status" /\ ~ExpenseRowFree(p)

Abort(p) ==
    /\ Blocked(p)
    /\ txns' = [txns EXCEPT ![p] = Finished(txns[p], "error", FALSE)]
    /\ UNCHANGED <<expense, policy, clock, last, prev, resolved, inorder, db, sub>>

NextConc ==
    \/ Build
    \/ \E p \in Procs :
          \/ Begin(p) \/ Find(p) \/ Mark(p) \/ EvalRead(p) \/ PendingRead(p)
          \/ CloseRead(p) \/ Save(p) \/ SaveDone(p) \/ SetStatus(p)
          \/ Commit(p) \/ Abort(p)

SpecConc == Init /\ [][NextConc]_vars

\* The response is sent; the worker takes the next request.
Recycle(p) ==
    /\ txns[p].pc \in {"done", "error"}
    /\ txns' = [txns EXCEPT ![p] = IdleTxn]
    /\ UNCHANGED <<expense, policy, clock, last, prev, resolved, inorder, db, sub>>

\* A request that has begun runs to its response.
Run(p) ==
    \/ Find(p) \/ Mark(p) \/ EvalRead(p) \/ PendingRead(p) \/ CloseRead(p)
    \/ Save(p) \/ SaveDone(p) \/ SetStatus(p) \/ Commit(p) \/ Abort(p)
    \/ Recycle(p)

\* The longest chain the served expense has, and the last clock value at
\* which a request is sent.
MaxFairSteps == 2
MaxFairClock == 3

\* The approver user, who holds a PENDING step, sends an approve or a reject.
InvokeBy(user) ==
    /\ clock <= MaxFairClock
    /\ FirstPendingStep(expense.steps, user) # 0
    /\ \E p \in Procs : Begin(p) /\ txns'[p].user = user

InitConcFair == Init /\ policy = NoPolicy

\* Build of a chain within the length bound.
BuildFair ==
    /\ expense = DraftExpense /\ last.op = "none"
    /\ \E out \in BuildOutcomes :
          /\ Len(out.expense.steps) <= MaxFairSteps
          /\ expense' = out.expense
    /\ last' = [NoOp EXCEPT !.op = "build", !.ok = TRUE]
    /\ prev' = expense
    /\ UNCHANGED <<policy, clock, resolved, inorder, txns, db, sub>>

NextConcFair ==
    \/ BuildFair
    \/ \E user \in Users : InvokeBy(user)
    \/ \E p \in Procs : Run(p)

\* Concurrent requests served for ever: each request runs to its end and
\* every approver who holds a PENDING step eventually sends a request.
SpecConcFair ==
    /\ InitConcFair /\ [][NextConcFair]_vars
    /\ \A p \in Procs : WF_vars(Run(p))
    /\ \A user \in Users : SF_vars(InvokeBy(user))

\* ------------------------------------------------ two expenses, one table
\* Largest chain of an expense in the specification with two expenses.
MaxIsoSteps == 1

\* Mutant of StepsOf: the rows are not filtered by expense.
StepsOfAnyExpense(d, id) ==
    LET Test(i) == TRUE
    IN SelectSeq([i \in 1..Len(d.rows) |-> i], Test)

\* expense.steps: the primary keys of the ApprovalStep rows whose expense is
\* id, in the order the rows were created.
StepsOf(d, id) ==
    LET Test(i) == d.rows[i].expense_id = id
    IN SelectSeq([i \in 1..Len(d.rows) |-> i], Test)

\* The Expense row id with the rows its queries return.
ExpenseOf(d, id) ==
    LET pks == StepsOf(d, id)
    IN [status |-> d.status[id],
        steps |-> [k \in 1..Len(pks) |-> d.rows[pks[k]]]]

Row(id, s) ==
    [expense_id |-> id, sequence |-> s.sequence, approver |-> s.approver,
     status |-> s.status, comment |-> s.comment, acted_at |-> s.acted_at]

\* The saves of an operation called on expense id that leaves it as e: each
\* row it read is saved under its primary key, each step it created is
\* inserted with expense = id.
Store(d, id, e) ==
    LET pks == StepsOf(d, id)
        Pos(i) == CHOOSE k \in 1..Len(pks) : pks[k] = i
        kept == [i \in 1..Len(d.rows) |->
                    IF \E k \in 1..Len(pks) : pks[k] = i
                    THEN Row(d.rows[i].expense_id, e.steps[Pos(i)])
                    ELSE d.rows[i]]
        made == [k \in 1..(Len(e.steps) - Len(pks)) |->
                    Row(id, e.steps[Len(pks) + k])]
    IN [status |-> [d.status EXCEPT ![id] = e.status],
        rows |-> kept \o made, target |-> id]

\* The chains build makes, up to the length bound.
IsoChains ==
    {out.expense : out \in {o \in BuildOutcomes :
                               Len(o.expense.steps) <= MaxIsoSteps}}

IsoPolicies ==
    {NoPolicy,
     [exists |-> TRUE, mode |-> "PERCENTAGE_OR_SPECIFIC",
      percentage_required |-> 50, specific_approver |-> "u2"]}

InitIso ==
    /\ expense = DraftExpense
    /\ policy \in IsoPolicies
    /\ clock = 1
    /\ last = NoOp
    /\ prev = expense
    /\ resolved = <<>>
    /\ inorder = 0
    /\ txns = [p \in Procs |-> IdleTxn]
    /\ db = NoDb
    /\ sub = NoSub

IsoTick(d) == IF d.rows # db.rows THEN clock + 1 ELSE clock

BuildIso ==
    /\ \E id \in Ids, e \in IsoChains :
          /\ db.status[id] = "DRAFT" /\ StepsOf(db, id) = <<>>
          /\ db' = Store(db, id, e)
    /\ UNCHANGED <<expense, policy, clock, last, prev, resolved, inorder, txns, sub>>

ApproveIso ==
    /\ \E id \in Ids, user \in Users :
          LET d == Store(db, id, approve_step(policy, ExpenseOf(db, id), user,
                                              <<"c">>, clock).e)
          IN db' = d /\ clock' = IsoTick(d)
    /\ UNCHANGED <<expense, policy, last, prev, resolved, inorder, txns, sub>>

RejectIso ==
    /\ \E id \in Ids, user \in Users :
          LET d == Store(db, id, reject_expense(ExpenseOf(db, id), user,
                                                <<"c">>, clock).e)
          IN db' = d /\ clock' = IsoTick(d)
    /\ UNCHANGED <<expense, policy, last, prev, resolved, inorder, txns, sub>>

OverrideIso ==
    /\ \E id \in Ids, status \in {"APPROVED", "REJECTED"} :
          LET d == Store(db, id, admin_override_expense(ExpenseOf(db, id), status,
                                                        <<"c">>, clock).e)
          IN db' = d /\ clock' = IsoTick(d)
    /\ UNCHANGED <<expense, policy, last, prev, resolved, inorder, txns, sub>>

NextIso == BuildIso \/ ApproveIso \/ RejectIso \/ OverrideIso

SpecIso == InitIso /\ [][NextIso]_vars

\* ------------------------------------------------------------- submission
\* Currency codes as the form and the company give them.
Currencies == {"USD", "EUR", "eur"}

Upper(c) == IF c = "eur" THEN "EUR" ELSE c

\* Amounts of the form, in hundredths (DecimalField, decimal_places=2).
Amounts == {0, 1, 150}

\* Rates in hundredths; 0 stands for a rate that is missing or zero.
Rates == {0, 50, 150}

\* What cache and exchange-rate API give for the rates of the base currency:
\* an exception ("error"), no rates ("empty"), or a table of rates.
RateSources ==
    [kind : {"error", "empty"}, rates : {[c \in {"USD", "EUR"} |-> 0]}]
    \cup [kind : {"rates"}, rates : [{"USD", "EUR"} -> Rates]]

\* (Decimal(rate) * amount).quantize(Decimal("0.01")): x hundredths of a
\* hundredth rounded to hundredths, half to even.
Quantize(x) ==
    LET q == x \div 100
        rem == x % 100
    IN IF rem > 50 \/ (rem = 50 /\ q % 2 = 1) THEN q + 1 ELSE q

convert_amount(amount, from_ccy, to_ccy, source) ==
    IF amount = 0 \/ Upper(from_ccy) = Upper(to_ccy) THEN amount
    ELSE IF source.kind \in {"error", "empty"} THEN NoAmount
    ELSE LET rate == source.rates[Upper(to_ccy)]
         IN IF rate = 0 THEN NoAmount ELSE Quantize(rate * amount)

\* Mutant of AmountConverted: the fallback to the original amount is missing.
AmountConvertedNoFallback(converted, amount) == converted

\* converted if converted is not None else exp.amount
AmountConverted(converted, amount) ==
    IF converted # NoAmount THEN converted ELSE amount

InitSubmit ==
    /\ expense = DraftExpense
    /\ policy = DefaultPolicy
    /\ clock = 1
    /\ last = NoOp
    /\ prev = expense
    /\ resolved = <<>>
    /\ inorder = 0
    /\ txns = [p \in Procs |-> IdleTxn]
    /\ db = NoDb
    /\ sub = NoSub

\* expense_create lines 105-110: the valid form, the conversion and the
\* choice of amount_converted.
Convert ==
    /\ sub.pc = "none"
    /\ \E amount \in Amounts, from_ccy \in Currencies, to_ccy \in Currencies,
          source \in RateSources :
          LET converted == convert_amount(amount, from_ccy, to_ccy, source)
          IN sub' = [pc |-> "converted", amount |-> amount,
                     converted |-> converted,
                     amount_converted |-> AmountConverted(converted, amount),
                     config |-> <<>>]
    /\ UNCHANGED <<expense, policy, clock, last, prev, resolved, inorder, txns, db>>

\* expense_create lines 111-112: the expense is saved as DRAFT.
SaveDraft ==
    /\ sub.pc = "converted"
    /\ expense' = DraftExpense
    /\ sub' = [sub EXCEPT !.pc = "saved"]
    /\ UNCHANGED <<policy, clock, last, prev, resolved, inorder, txns, db>>

\* expense_create line 118: the chain is built and the status set.
BuildSubmitted ==
    /\ sub.pc = "saved"
    /\ \E out \in BuildOutcomes :
          /\ expense' = out.expense
          /\ resolved' = out.resolved
          /\ last' = [NoOp EXCEPT !.op = "build", !.ok = TRUE,
                                  !.dropped = out.dropped]
    /\ prev' = expense
    /\ sub' = [sub EXCEPT !.pc = "built"]
    /\ UNCHANGED <<policy, clock, inorder, txns, db>>

NextSubmit == Convert \/ SaveDraft \/ BuildSubmitted

SpecSubmit == InitSubmit /\ [][NextSubmit]_vars

\* ------------------------------------------- build, per company configuration
\* expense_create has saved the expense as DRAFT and calls build.
InitBuild ==
    /\ expense = DraftExpense
    /\ policy = DefaultPolicy
    /\ clock = 1
    /\ last = NoOp
    /\ prev = expense
    /\ resolved = <<>>
    /\ inorder = 0
    /\ txns = [p \in Procs |-> IdleTxn]
    /\ db = NoDb
    /\ sub = [NoSub EXCEPT !.pc = "saved"]

BuildChain ==
    /\ sub.pc = "saved"
    /\ \E company \in Companies :
          \E ord \in Orderings(company.stages) :
             /\ expense' = build_approval_steps_for_expense(expense, company, ord)
             /\ resolved' = ResolvedAssignees(company, ord)
             /\ sub' = [sub EXCEPT !.pc = "built", !.config = <<company, ord>>]
    /\ last' = [NoOp EXCEPT !.op = "build", !.ok = TRUE]
    /\ prev' = expense
    /\ UNCHANGED <<policy, clock, inorder, txns, db>>

NextBuild == BuildChain

SpecBuild == InitBuild /\ [][NextBuild]_vars


\* ================================================================ claims
Terminal == {"APPROVED", "REJECTED"}

StepIdx(e) == 1..Len(e.steps)

\* C1: once the expense is APPROVED or REJECTED, no operation changes its
\* status or any field of any of its steps.
C1_TerminalFinality ==
    (last.op \in {"approve", "reject", "override"} /\ prev.status \in Terminal)
    => expense = prev

\* C2: of two requests that found the same PENDING step of the same user, at
\* most one ends in success; the other returns failure having changed nothing.
C2_SingleConsumption ==
    \A p, q \in Procs :
       (/\ p # q
        /\ txns[p].pc = "done" /\ txns[q].pc = "done"
        /\ txns[p].step # 0 /\ txns[p].step = txns[q].step
        /\ txns[p].user = txns[q].user)
       => ~(txns[p].ok /\ txns[q].ok)

NoEarlyPolicies == {NoPolicy, DefaultPolicy}

\* C4: with no policy or the default policy, k approvals made one per step in
\* ascending sequence order by that step's approver each succeed, leave the
\* first k steps APPROVED and the others PENDING, and the expense PENDING
\* until the last of them and APPROVED after it.
C4_RoundTrip ==
    (/\ policy \in NoEarlyPolicies /\ last.op # "none"
     /\ inorder >= 0 /\ Len(expense.steps) >= 1)
    => /\ inorder <= Len(expense.steps)
       /\ inorder > 0 => (last.op = "approve" /\ last.ok /\ last.step = inorder)
       /\ \A i \in StepIdx(expense) :
             expense.steps[i].status = IF i <= inorder THEN "APPROVED" ELSE "PENDING"
       /\ expense.status =
             IF inorder = Len(expense.steps) THEN "APPROVED" ELSE "PENDING"

\* Three approvals in sequence order have approved a chain of three steps in
\* which one approver holds two steps.
C4_Witness ==
    /\ policy = DefaultPolicy /\ inorder = 3 /\ Len(expense.steps) = 3
    /\ expense.status = "APPROVED"
    /\ expense.steps[1].approver = expense.steps[2].approver
    /\ expense.steps[3].approver # expense.steps[1].approver
    /\ \A i \in StepIdx(expense) : expense.steps[i].acted_at = i

\* C5: after build the steps carry the sequence numbers 1..N, each once, N
\* the number of assignees that resolved to a user.
C5_ContiguousSequence ==
    last.op # "none" =>
       /\ Len(expense.steps) = Len(resolved)
       /\ \A i \in StepIdx(expense) : expense.steps[i].sequence = i
       /\ {expense.steps[i].sequence : i \in StepIdx(expense)} = 1..Len(resolved)

\* A build that dropped a stage without assignee and still made two steps.
C5_Witness ==
    /\ last.op = "build" /\ last.dropped >= 1 /\ Len(expense.steps) >= 2

\* C6: build leaves the expense APPROVED iff it created no step, PENDING
\* otherwise, and every created step PENDING without acted_at.
C6_SubmissionStatus ==
    last.op = "build" =>
       /\ expense.status = "APPROVED" <=> Len(expense.steps) = 0
       /\ expense.status = "PENDING" <=> Len(expense.steps) > 0
       /\ \A i \in StepIdx(expense) :
             /\ expense.steps[i].status = "PENDING"
             /\ expense.steps[i].acted_at = NoTime

\* A build whose every stage was unresolved: no step, auto-approved.
C6_Witness ==
    /\ last.op = "build" /\ last.dropped >= 1
    /\ Len(expense.steps) = 0 /\ expense.status = "APPROVED"

\* C7: in PERCENTAGE mode, on a step set of at least one step, the evaluator
\* finalizes iff percentage_required > 0 and the truncated integer percentage
\* of approved steps reaches it.
C7_PercentageMode ==
    (/\ last.op = "evaluate" /\ policy.exists
        /\ policy.mode = "PERCENTAGE" /\ Len(prev.steps) >= 1) =>
          (last.finalized <=>
             /\ policy.percentage_required > 0
             /\ (100 * ApprovedCount(prev.steps)) \div Len(prev.steps)
                   >= policy.percentage_required)

\* The evaluator left 1 approved of 3 alone at a required 34.
C7_Witness ==
    /\ last.op = "evaluate" /\ ~last.finalized
    /\ policy.exists /\ policy.mode = "PERCENTAGE"
    /\ policy.percentage_required = 34
    /\ Len(expense.steps) = 3 /\ ApprovedCount(expense.steps) = 1
    /\ AnyPending(expense.steps)

\* C8: under a SPECIFIC policy a successful approve finalizes iff the
\* specific approver is set and a step of that user is APPROVED once the
\* acted step is marked; then the expense is APPROVED at once and every step
\* still PENDING, earlier ones included, is SKIPPED. With no specific
\* approver the mode never finalizes.
C8_SpecificMode ==
    (/\ last.op = "approve" /\ last.ok
        /\ policy.exists /\ policy.mode = "SPECIFIC") =>
          LET i == last.step IN
          /\ last.finalized <=>
                /\ policy.specific_approver # None
                /\ \E j \in StepIdx(prev) :
                      /\ prev.steps[j].approver = policy.specific_approver
                      /\ (j = i \/ prev.steps[j].status = "APPROVED")
          /\ last.finalized =>
                /\ expense.status = "APPROVED"
                /\ \A j \in StepIdx(prev) :
                      (j # i /\ prev.steps[j].status = "PENDING")
                      => expense.steps[j].status = "SKIPPED"
          /\ policy.specific_approver = None => ~last.finalized

\* The specific approver approved step 2 of 3 while step 1 was PENDING: steps
\* 1 and 3 are SKIPPED and the expense is APPROVED.
C8_Witness ==
    /\ last.op = "approve" /\ last.finalized /\ last.step = 2
    /\ policy.mode = "SPECIFIC" /\ policy.specific_approver = "u2"
    /\ Len(expense.steps) = 3 /\ expense.status = "APPROVED"
    /\ expense.steps[1].status = "SKIPPED" /\ expense.steps[1].approver = "u1"
    /\ expense.steps[2].status = "APPROVED" /\ expense.steps[2].approver = "u2"
    /\ expense.steps[3].status = "SKIPPED"

\* C9: the evaluator finalizes under PERCENTAGE_OR_SPECIFIC iff it finalizes
\* under SPECIFIC or under PERCENTAGE with the same two policy fields.
C9_CombinedIsOr ==
    (/\ last.op = "evaluate" /\ policy.exists
        /\ policy.mode = "PERCENTAGE_OR_SPECIFIC") =>
          (last.finalized <=>
             \/ evaluate_policy_and_maybe_finalize(
                   [policy EXCEPT !.mode = "SPECIFIC"], prev, clock).finalized
             \/ evaluate_policy_and_maybe_finalize(
                   [policy EXCEPT !.mode = "PERCENTAGE"], prev, clock).finalized)

\* The combined mode finalized on the percentage alone: the specific approver
\* is set and has approved nothing.
C9_Witness ==
    /\ last.op = "evaluate" /\ last.finalized
    /\ policy.mode = "PERCENTAGE_OR_SPECIFIC"
    /\ policy.specific_approver # None
    /\ ~SpecificApproved(policy, expense.steps)
    /\ \E i \in StepIdx(expense) :
          expense.steps[i].status = "SKIPPED" /\ expense.steps[i].acted_at = 2

\* C10: under PERCENTAGE with percentage_required = 0 an approve never
\* finalizes: it marks no step SKIPPED, and leaves the expense APPROVED only
\* when no step other than the approved one was PENDING.
C10_ZeroPercentNeverFinalizes ==
    (/\ last.op = "approve" /\ policy.exists
        /\ policy.mode = "PERCENTAGE" /\ policy.percentage_required = 0) =>
          /\ ~last.finalized
          /\ \A j \in StepIdx(prev) :
                expense.steps[j].status = "SKIPPED"
                => prev.steps[j].status = "SKIPPED"
          /\ (last.ok /\ expense.status = "APPROVED") =>
                /\ ~AnyPending(expense.steps)
                /\ \A j \in StepIdx(prev) :
                      prev.steps[j].status = "PENDING" => j = last.step

\* Two of three steps approved under the default policy: still PENDING.
C10_Witness ==
    /\ policy = DefaultPolicy /\ last.op = "approve" /\ last.ok
    /\ Len(expense.steps) = 3 /\ ApprovedCount(expense.steps) = 2
    /\ expense.status = "PENDING" /\ AnyPending(expense.steps)

\* The condition of the configured mode, as the policy evaluator's contract
\* states it: SPECIFIC, PERCENTAGE (truncated integer percentage), or either.
PolicySatisfied(pol, steps) ==
    /\ pol.exists /\ Len(steps) >= 1
    /\ LET specific ==
               /\ pol.specific_approver # None
               /\ \E i \in 1..Len(steps) :
                     /\ steps[i].approver = pol.specific_approver
                     /\ steps[i].status = "APPROVED"
           percentage ==
               /\ pol.percentage_required > 0
               /\ (100 * ApprovedCount(steps)) \div Len(steps)
                     >= pol.percentage_required
       IN \/ pol.mode = "SPECIFIC" /\ specific
          \/ pol.mode = "PERCENTAGE" /\ percentage
          \/ pol.mode = "PERCENTAGE_OR_SPECIFIC" /\ (specific \/ percentage)

\* C11: a second call of the evaluator right after the first, and a call on
\* an expense already finalized (APPROVED, no step PENDING), change neither
\* the expense status nor any step.
C11_PolicyIdempotence ==
    /\ last.op = "reevaluate" => expense = prev
    /\ (/\ last.op = "evaluate" /\ prev.status = "APPROVED"
        /\ ~AnyPending(prev.steps)) => expense = prev

\* The second call came after a first one that finalized and stamped a
\* skipped step.
C11_Witness ==
    /\ last.op = "reevaluate" /\ last.finalized /\ clock = 3
    /\ expense.status = "APPROVED"
    /\ \E i \in StepIdx(expense) :
          expense.steps[i].status = "SKIPPED" /\ expense.steps[i].acted_at = 2

\* C12: when the policy condition is satisfied the evaluator leaves the
\* expense APPROVED, every step that was PENDING SKIPPED with an acted_at,
\* every resolved step as it was, and deletes no step.
C12_FinalizeEffect ==
    (last.op = "evaluate" /\ PolicySatisfied(policy, prev.steps)) =>
       /\ last.finalized
       /\ expense.status = "APPROVED"
       /\ Len(expense.steps) = Len(prev.steps)
       /\ \A j \in StepIdx(prev) :
             IF prev.steps[j].status = "PENDING"
             THEN /\ expense.steps[j].status = "SKIPPED"
                  /\ expense.steps[j].acted_at # NoTime
                  /\ expense.steps[j].approver = prev.steps[j].approver
                  /\ expense.steps[j].sequence = prev.steps[j].sequence
             ELSE expense.steps[j] = prev.steps[j]

\* The evaluator finalized a PENDING expense of three steps: one APPROVED and
\* one REJECTED step kept, one PENDING step skipped.
C12_Witness ==
    /\ last.op = "evaluate" /\ last.finalized /\ prev.status = "PENDING"
    /\ Len(prev.steps) = 3
    /\ prev.steps[1].status = "APPROVED" /\ prev.steps[2].status = "REJECTED"
    /\ prev.steps[3].status = "PENDING"
    /\ expense.steps[3].status = "SKIPPED" /\ expense.steps[3].acted_at = 2

\* C13: with no policy, no step, or the mode's condition unmet, the evaluator
\* changes neither the expense status nor any step.
C13_EvaluatorNoOp ==
    (/\ last.op \in {"evaluate", "reevaluate"}
     /\ ~PolicySatisfied(policy, prev.steps))
    => (expense = prev /\ ~last.finalized)

\* The evaluator left a PENDING expense without steps alone under a policy.
C13_Witness ==
    /\ last.op = "evaluate" /\ policy.exists /\ policy.mode = "SPECIFIC"
    /\ prev.status = "PENDING" /\ Len(prev.steps) = 0
    /\ expense = prev

\* The acting user holds a PENDING step of expense e.
HasPendingStep(e, user) ==
    \E j \in StepIdx(e) :
        e.steps[j].approver = user /\ e.steps[j].status = "PENDING"

\* C14: approve returns False on an expense that is not PENDING and for a
\* user without PENDING step, reject returns False for a user without
\* PENDING step; a call that returned False left the expense and every step
\* as they were.
C14_FailedIsNoOp ==
    /\ (/\ last.op = "approve"
        /\ (prev.status # "PENDING" \/ ~HasPendingStep(prev, last.user)))
       => ~last.ok
    /\ (last.op = "reject" /\ ~HasPendingStep(prev, last.user)) => ~last.ok
    /\ (last.op \in {"approve", "reject"} /\ ~last.ok) => expense = prev

\* An approve failed on a PENDING expense whose only PENDING steps are
\* another user's.
C14_Witness ==
    /\ last.op = "approve" /\ ~last.ok /\ prev.status = "PENDING"
    /\ AnyPending(prev.steps) /\ ~HasPendingStep(prev, last.user)
    /\ expense = prev

\* C15: an override to a status other than APPROVED and REJECTED returns
\* False and leaves the expense and every step as they were.
C15_OverrideInvalidTarget ==
    (last.op = "override" /\ last.status \notin Terminal)
    => (~last.ok /\ expense = prev)

\* An override to DRAFT failed on a PENDING expense with a PENDING step.
C15_Witness ==
    /\ last.op = "override" /\ last.status = "DRAFT" /\ ~last.ok
    /\ expense.status = "PENDING" /\ AnyPending(expense.steps)

\* C16: an override of a PENDING expense to APPROVED or REJECTED returns
\* True, sets that status, closes every PENDING step (SKIPPED for APPROVED,
\* REJECTED for REJECTED) with an acted_at and, when a comment is given, the
\* tagged fragment appended to the step's comment; resolved steps are kept.
C16_OverrideEffect ==
    (/\ last.op = "override" /\ prev.status = "PENDING"
     /\ last.status \in Terminal) =>
       /\ last.ok
       /\ expense.status = last.status
       /\ Len(expense.steps) = Len(prev.steps)
       /\ \A j \in StepIdx(prev) :
             IF prev.steps[j].status = "PENDING"
             THEN /\ expense.steps[j].status =
                        IF last.status = "APPROVED" THEN "SKIPPED" ELSE "REJECTED"
                  /\ expense.steps[j].acted_at # NoTime
                  /\ expense.steps[j].comment =
                        IF last.comment = <<>> THEN prev.steps[j].comment
                        ELSE prev.steps[j].comment
                             \o <<"[Admin override]">> \o last.comment
                  /\ expense.steps[j].approver = prev.steps[j].approver
                  /\ expense.steps[j].sequence = prev.steps[j].sequence
             ELSE expense.steps[j] = prev.steps[j]

\* An override to REJECTED with a comment closed two PENDING steps as
\* REJECTED with the fragment, under a policy, next to an APPROVED step.
C16_Witness ==
    /\ last.op = "override" /\ last.ok /\ last.status = "REJECTED"
    /\ last.comment = <<"c">> /\ policy.exists
    /\ prev.status = "PENDING" /\ Len(prev.steps) = 3
    /\ prev.steps[1].status = "APPROVED"
    /\ \A j \in {2, 3} :
          /\ prev.steps[j].status = "PENDING"
          /\ expense.steps[j].status = "REJECTED"
          /\ expense.steps[j].comment = <<"[Admin override]", "c">>
    /\ expense.status = "REJECTED"

\* C17 as stated: an approve that comes right after a successful approve of
\* the same user returns False and changes nothing.
C17_RepeatFails ==
    (last.op = "approve" /\ last.repeat) => (~last.ok /\ expense = prev)

\* C17 amended: an approve that comes right after a successful approve of
\* the same user returns False and changes nothing when the first call left
\* that user no PENDING step or left the expense not PENDING.
C17_RepeatFailsWithoutPendingStep ==
    (/\ last.op = "approve" /\ last.repeat
     /\ (~HasPendingStep(prev, last.user) \/ prev.status # "PENDING"))
    => (~last.ok /\ expense = prev)

\* The repeated approve failed on an expense still PENDING: the user's one
\* step was approved by the first call, another user's step is PENDING.
C17_Witness ==
    /\ last.op = "approve" /\ last.repeat /\ ~last.ok
    /\ expense.status = "PENDING" /\ AnyPending(expense.steps)
    /\ \E j \in StepIdx(expense) :
          /\ expense.steps[j].approver = last.user
          /\ expense.steps[j].status = "APPROVED"

\* C18: an operation after build leaves the number of steps, their sequence
\* numbers and approvers as they were, leaves every step that was not PENDING
\* untouched (status, comment, acted_at), and changes a status only from
\* PENDING to APPROVED, REJECTED or SKIPPED.
C18_OneShotSteps ==
    last.op \in {"approve", "reject", "override"} =>
       /\ Len(expense.steps) = Len(prev.steps)
       /\ \A j \in StepIdx(prev) :
             /\ expense.steps[j].sequence = prev.steps[j].sequence
             /\ expense.steps[j].approver = prev.steps[j].approver
             /\ prev.steps[j].status # "PENDING"
                   => expense.steps[j] = prev.steps[j]
             /\ expense.steps[j].status # prev.steps[j].status
                   => /\ prev.steps[j].status = "PENDING"
                      /\ expense.steps[j].status
                            \in {"APPROVED", "REJECTED", "SKIPPED"}

\* An override of an expense already APPROVED with a comment: its APPROVED
\* and SKIPPED steps, stamped before, are as they were.
C18_Witness ==
    /\ last.op = "override" /\ last.ok /\ last.comment = <<"c">>
    /\ prev.status = "APPROVED" /\ Len(prev.steps) = 3
    /\ prev.steps[1].status = "APPROVED" /\ prev.steps[1].acted_at = 1
    /\ prev.steps[2].status = "APPROVED" /\ prev.steps[2].acted_at = 2
    /\ prev.steps[3].status = "SKIPPED"
    /\ expense.steps = prev.steps

\* C19: an expense that is APPROVED, REJECTED or DRAFT has no PENDING step,
\* so a reject of such an expense returns False and changes nothing.
C19_RejectSelfLimiting ==
    /\ expense.status \in {"APPROVED", "REJECTED", "DRAFT"}
          => ~AnyPending(expense.steps)
    /\ (last.op = "reject" /\ prev.status \in {"APPROVED", "REJECTED", "DRAFT"})
          => (~last.ok /\ expense = prev)

\* A reject failed on an APPROVED expense of three steps, by a user who is
\* the approver of one of them.
C19_Witness ==
    /\ last.op = "reject" /\ ~last.ok
    /\ prev.status = "APPROVED" /\ Len(prev.steps) = 3
    /\ \E j \in StepIdx(prev) : prev.steps[j].approver = last.user
    /\ expense = prev

\* C20: in a run without admin override an APPROVED expense has no step, or
\* all its steps APPROVED, or the policy's condition satisfied by its steps
\* and every step that is not APPROVED SKIPPED.
C20_ApprovedOnlyByChainOrPolicy ==
    expense.status = "APPROVED" =>
       \/ Len(expense.steps) = 0
       \/ \A j \in StepIdx(expense) : expense.steps[j].status = "APPROVED"
       \/ /\ PolicySatisfied(policy, expense.steps)
          /\ \A j \in StepIdx(expense) :
                expense.steps[j].status \in {"APPROVED", "SKIPPED"}

\* The expense was approved by the policy with two of three steps SKIPPED.
C20_Witness ==
    /\ expense.status = "APPROVED" /\ Len(expense.steps) = 3
    /\ last.op = "approve" /\ last.finalized
    /\ Cardinality({j \in StepIdx(expense) :
                       expense.steps[j].status = "SKIPPED"}) = 2

\* C21: an operation called on one expense leaves the status of every other
\* expense and every field of every step of every other expense as they were.
C21_Isolation ==
    [][\A id \in Ids :
          id # db'.target =>
             /\ db'.status[id] = db.status[id]
             /\ ExpenseOf(db', id) = ExpenseOf(db, id)
             /\ \A i \in 1..Len(db.rows) :
                   db.rows[i].expense_id = id => db'.rows[i] = db.rows[i]]_vars

\* The two expenses have the same approver on a PENDING step, one of them
\* was approved by that user and the other is still PENDING.
C21_Witness ==
    /\ db.target = 1 /\ db.status[1] = "APPROVED" /\ db.status[2] = "PENDING"
    /\ \E i, j \in 1..Len(db.rows) :
          /\ db.rows[i].expense_id = 1 /\ db.rows[j].expense_id = 2
          /\ db.rows[i].approver = db.rows[j].approver
          /\ db.rows[i].status = "APPROVED" /\ db.rows[j].status = "PENDING"
          /\ i > j

\* C22: when convert_amount returned no result, the expense is saved with
\* amount_converted equal to the original amount, the submission goes on to
\* the save and to the build, and build leaves the expense PENDING or
\* APPROVED with its chain.
C22_ConversionFallback ==
    sub.converted = NoAmount =>
       /\ sub.pc \in {"converted", "saved", "built"}
             => sub.amount_converted = sub.amount
       /\ sub.pc = "converted" => ENABLED SaveDraft
       /\ sub.pc = "saved" => (expense = DraftExpense /\ ENABLED BuildSubmitted)
       /\ sub.pc = "built" =>
             /\ expense.status \in {"PENDING", "APPROVED"}
             /\ Len(expense.steps) = Len(resolved)

\* A submission whose conversion failed was built into a PENDING chain.
C22_Witness ==
    /\ sub.pc = "built" /\ sub.converted = NoAmount /\ sub.amount = 150
    /\ sub.amount_converted = 150
    /\ expense.status = "PENDING" /\ Len(expense.steps) = 2

\* C23: a successful approve acts on the step of lowest sequence among the
\* acting user's PENDING steps, whether or not steps of lower sequence of
\* other approvers are resolved, marks that one step APPROVED, and leaves
\* every other step as it was unless the evaluator finalized in the call.
C23_ApproveActsOnOneStep ==
    last.op = "approve" =>
       /\ (prev.status = "PENDING" /\ HasPendingStep(prev, last.user)) => last.ok
       /\ last.ok =>
             LET i == last.step IN
             /\ i \in StepIdx(prev)
             /\ prev.steps[i].approver = last.user
             /\ prev.steps[i].status = "PENDING"
             /\ \A j \in StepIdx(prev) :
                   (/\ prev.steps[j].approver = last.user
                    /\ prev.steps[j].status = "PENDING" /\ j # i)
                   => prev.steps[i].sequence < prev.steps[j].sequence
             /\ expense.steps[i].status = "APPROVED"
             /\ \A j \in StepIdx(prev) \ {i} :
                   /\ expense.steps[j].status # "APPROVED"
                         => expense.steps[j].status \in
                               {prev.steps[j].status, "SKIPPED"}
                   /\ expense.steps[j].status = "APPROVED"
                         => expense.steps[j] = prev.steps[j]
                   /\ ~last.finalized => expense.steps[j] = prev.steps[j]

\* u2 approved step 2 of [u1, u2, u2] while step 1 was PENDING: step 1 and
\* u2's later step 3 are still PENDING.
C23_Witness ==
    /\ last.op = "approve" /\ last.ok /\ last.step = 2 /\ ~last.finalized
    /\ Len(expense.steps) = 3
    /\ expense.steps[1].status = "PENDING"
    /\ expense.steps[1].approver # last.user
    /\ expense.steps[2].status = "APPROVED"
    /\ expense.steps[3].status = "PENDING"
    /\ expense.steps[3].approver = last.user

\* C24: after a successful approve in which the evaluator did not finalize,
\* the expense is APPROVED iff no step is PENDING and PENDING otherwise, and
\* no step other than the approved one has changed.
C24_StepProgression ==
    (last.op = "approve" /\ last.ok /\ ~last.finalized) =>
       LET open == {j \in StepIdx(expense) : expense.steps[j].status = "PENDING"}
       IN /\ expense.status = "APPROVED" <=> open = {}
          /\ open # {} => expense.status = "PENDING"
          /\ \A j \in StepIdx(prev) \ {last.step} :
                expense.steps[j] = prev.steps[j]

\* Scenario A, last step: with no policy row, the second approver of
\* [u2, u1] approved and the expense became APPROVED.
C24_Witness ==
    /\ policy = NoPolicy /\ last.op = "approve" /\ last.ok /\ last.step = 2
    /\ Len(prev.steps) = 2 /\ prev.status = "PENDING"
    /\ prev.steps[1].status = "APPROVED" /\ prev.steps[1].approver = "u2"
    /\ prev.steps[2].status = "PENDING" /\ prev.steps[2].approver = "u1"
    /\ expense.status = "APPROVED"

\* The assignee of a stage as the Stage Resolver's contract states it.
StageAssignee(company, stage) ==
    CASE stage.specific_user # None -> stage.specific_user
      [] stage.specific_user = None /\ stage.role_name = "MANAGER" -> company.manager
      [] stage.specific_user = None /\ stage.role_name \notin {"MANAGER", None}
            -> company.role_assignments[stage.role_name]
      [] OTHER -> None

\* The manager, when manager-first applies, then the assignees of the stages
\* in the order ord, absent ones left out.
ExpectedApprovers(company, ord) ==
    LET all == [k \in 1..Len(ord) |-> StageAssignee(company, company.stages[ord[k]])]
        Present(a) == a # None
    IN (IF company.is_manager_first_approver /\ company.manager # None
        THEN <<company.manager>> ELSE <<>>)
       \o SelectSeq(all, Present)

\* C25: the approver of step k is the k-th element of the list made of the
\* manager (manager-first, manager present) and the resolved assignees of
\* the stages taken in ascending stage sequence; a user occurring more than
\* once has one step per occurrence.
C25_ChainConstruction ==
    sub.pc = "built" /\ sub.config # <<>> =>
       LET company == sub.config[1]
           ord == sub.config[2]
       IN /\ \A i, j \in 1..Len(ord) :
                i < j => company.stages[ord[i]].sequence
                            <= company.stages[ord[j]].sequence
          /\ [k \in StepIdx(expense) |-> expense.steps[k].approver]
                = ExpectedApprovers(company, ord)

\* Manager-first and a MANAGER stage: two steps for the manager, after a
\* stage of higher row order but lower sequence was taken first.
C25_Witness ==
    /\ sub.pc = "built" /\ sub.config # <<>>
    /\ sub.config[1].is_manager_first_approver
    /\ Len(sub.config[1].stages) = 2
    /\ sub.config[1].stages[1].role_name = "MANAGER"
    /\ sub.config[1].stages[1].specific_user = None
    /\ sub.config[1].stages[1].sequence = 2
    /\ sub.config[1].stages[2].sequence = 1
    /\ Len(expense.steps) = 3
    /\ expense.steps[1].approver = expense.steps[3].approver
    /\ expense.steps[2].approver # expense.steps[1].approver

\* No request is in flight.
Quiescent == \A p \in Procs : txns[p].pc \in {"idle", "done", "error"}

\* C26: when no interleaved approve of different approvers is in flight, a
\* PENDING expense has a PENDING step.
C26_NoStuckExpense ==
    (/\ Quiescent
     /\ \A p \in Procs : txns[p].pc # "idle" => txns[p].kind = "approve"
     /\ \A p, q \in Procs :
           (p # q /\ txns[p].pc # "idle" /\ txns[q].pc # "idle")
           => txns[p].user # txns[q].user
     /\ expense.status = "PENDING")
    => AnyPending(expense.steps)

\* C27: an APPROVED or REJECTED expense has no PENDING step and a DRAFT
\* expense has no step.
C27_ClosedChain ==
    /\ expense.status \in Terminal =>
          \A j \in StepIdx(expense) : expense.steps[j].status # "PENDING"
    /\ expense.status = "DRAFT" => Len(expense.steps) = 0

\* The policy finalized an expense of three steps: none is PENDING.
C27_Witness ==
    /\ last.op = "approve" /\ last.finalized /\ expense.status = "APPROVED"
    /\ Len(expense.steps) = 3 /\ AnyPending(prev.steps)
    /\ \E j \in StepIdx(expense) :
          prev.steps[j].status = "PENDING" /\ expense.steps[j].status = "SKIPPED"

\* C28: an APPROVED expense has no REJECTED step and a REJECTED expense has
\* no SKIPPED step.
C28_StatusConsistency ==
    /\ expense.status = "APPROVED" =>
          \A j \in StepIdx(expense) : expense.steps[j].status # "REJECTED"
    /\ expense.status = "REJECTED" =>
          \A j \in StepIdx(expense) : expense.steps[j].status # "SKIPPED"

\* C29: a step has an acted_at iff its status is not PENDING.
C29_AuditTrail ==
    \A j \in StepIdx(expense) :
       expense.steps[j].acted_at # NoTime <=> expense.steps[j].status # "PENDING"

\* A reject closed a sibling step at the time it stamped the rejected one,
\* after an earlier approve.
C29_Witness ==
    /\ last.op = "reject" /\ last.ok /\ Len(expense.steps) = 3
    /\ expense.steps[1].status = "APPROVED" /\ expense.steps[1].acted_at = 1
    /\ expense.steps[2].status = "REJECTED" /\ expense.steps[2].acted_at = 2
    /\ expense.steps[3].status = "REJECTED" /\ expense.steps[3].acted_at = 2
    /\ last.step = 2

PendingCount(e) ==
    Cardinality({j \in StepIdx(e) : e.steps[j].status = "PENDING"})

\* The serial normal flow: a successful approve or reject leaves fewer
\* PENDING steps than it found, an expense of N steps has seen at most N of
\* them, and a PENDING expense whose approvers act ends APPROVED or REJECTED.
SerialProgress ==
    /\ []((last.op \in {"approve", "reject"} /\ last.ok)
            => PendingCount(expense) < PendingCount(prev))
    /\ [](clock - 1 <= Len(expense.steps))
    /\ (expense.status = "PENDING") ~> (expense.status \in Terminal)

\* C30: every approve or reject that returns success leaves fewer PENDING
\* steps than there were (so an expense of N steps sees at most N of them),
\* and when every approver holding a PENDING step eventually sends a request,
\* a PENDING expense eventually is APPROVED or REJECTED (requests stop being
\* sent once the clock has passed MaxFairClock).
C30_Progress ==
    /\ [][\A p \in Procs :
            Commit(p) => PendingCount(expense') < PendingCount(expense)]_vars
    /\ (expense.status = "PENDING")
          ~> (expense.status \in Terminal \/ clock > MaxFairClock)

====
